---- MODULE Spec2Model ----
(***************************************************************************)
(* Budget-alert throttling gate (cloud-functions/main.py).                 *)
(*                                                                         *)
(* Every Pub/Sub delivery runs subscribe() in its own stateless            *)
(* invocation; the only state shared between invocations is the Firestore  *)
(* collection "budget-alert-notification-stats" (the ledger) and the wall  *)
(* clock.  An invocation is modelled as a process whose steps are the      *)
(* places where it touches shared state: the ledger read, the ledger       *)
(* write, and the outbound webhook call.                                   *)
(*                                                                         *)
(* Time is counted in ticks since an epoch that is the start of a year in  *)
(* UTC.  One tick is the UTC offset of Asia/Bangkok, so that a local       *)
(* datetime in that zone is one tick ahead of UTC.  The calendar is        *)
(* scaled: a month is TicksPerMonth ticks and a year MonthsPerYear months. *)
(***************************************************************************)
EXTENDS Integers, Sequences, FiniteSets, TLC

\* ---------------------------------------------------------------- bounds
\* length of a month in ticks, of a year in months, and the last instant the
\* clock reaches
TicksPerMonth == 2
MonthsPerYear == 2
MaxTime == 5
\* the budgetAmount of the events and their largest costAmount
Budget == 1
MaxCost == 2
\* the longest label get_alert_name is applied to on its own
MaxLen == 4

\* ------------------------------------------------------------- constants
\* offset of "Asia/Bangkok" and of "UTC" from UTC, in ticks
BkkOffset == 1
UtcOffset == 0

Instants == 0..MaxTime

\* ------------------------------------------------------------- datetimes
\* A timezone-aware datetime: an instant and the UTC offset of its zone.
DateTime(i, o) == [inst |-> i, off |-> o]

\* the wall-clock reading of an aware datetime, in ticks since the epoch
LocalTicks(dt) == dt.inst + dt.off

\* datetime.year / datetime.month of an aware datetime (months are 1-based)
YearOf(dt) == LocalTicks(dt) \div (TicksPerMonth * MonthsPerYear)
MonthOf(dt) == ((LocalTicks(dt) \div TicksPerMonth) % MonthsPerYear) + 1

\* pendulum.now("Asia/Bangkok") when the wall clock reads instant t
PendulumNow(t) == DateTime(t, BkkOffset)

\* what Firestore hands back for a stored timestamp: the instant, in UTC
FromFirestore(i) == DateTime(i, UtcOffset)

\* strftime("%Y-%m-%dT%H:%M:%S.%f%z"): the local reading and the offset
Strftime(dt) == [local |-> LocalTicks(dt), z |-> dt.off]

\* pendulum.parse(s, tz="UTC"): the offset in the string wins over tz
PendulumParse(s) == DateTime(s.local - s.z, s.z)

\* DateTime.in_tz: same instant, other zone
InTz(dt, o) == DateTime(dt.inst, o)

\* the conversion without in_tz: the timestamp stays in the zone it came in
convert_to_timestamp_without_in_tz(timestamp_from_firestore) ==
    PendulumParse(Strftime(timestamp_from_firestore))

convert_to_timestamp_with_bkk(timestamp_from_firestore) ==
    InTz(PendulumParse(Strftime(timestamp_from_firestore)), BkkOffset)

get_month_and_year(timestamp) ==
    [month |-> MonthOf(timestamp), year |-> YearOf(timestamp)]

\* the comparison with "current_month >= last_notify_month"
has_one_month_passed_ge(current_timestamp, last_notify_timestamp) ==
    LET c == get_month_and_year(current_timestamp)
        l == get_month_and_year(last_notify_timestamp)
    IN  (c.year > l.year) \/ (c.year = l.year /\ c.month >= l.month)

\* the comparison on the month alone, the year forgotten
has_one_month_passed_month_only(current_timestamp, last_notify_timestamp) ==
    LET c == get_month_and_year(current_timestamp)
        l == get_month_and_year(last_notify_timestamp)
    IN  c.month > l.month

\* the comparison without "current_year == last_notify_year"
has_one_month_passed_no_eq(current_timestamp, last_notify_timestamp) ==
    LET c == get_month_and_year(current_timestamp)
        l == get_month_and_year(last_notify_timestamp)
    IN  (c.year > l.year) \/ (c.month > l.month)

has_one_month_passed(current_timestamp, last_notify_timestamp) ==
    LET c == get_month_and_year(current_timestamp)
        l == get_month_and_year(last_notify_timestamp)
    IN  (c.year > l.year) \/ (c.year = l.year /\ c.month > l.month)

\* ---------------------------------------------------------------- labels
\* A label is a sequence of characters; the marker "-bigquery-notification"
\* is the two-character sequence below.
Marker == <<"-", "n">>

\* positions at which the marker occurs in s
MarkerAt(s) ==
    {i \in 1..(Len(s) - Len(Marker) + 1) : SubSeq(s, i, i + Len(Marker) - 1) = Marker}

\* "-bigquery-notification" in alert_name
HasMarker(s) == MarkerAt(s) # {}

\* the part before the last occurrence of the marker, as rsplit would give
SplitLast(s) ==
    LET last == CHOOSE i \in MarkerAt(s) : \A j \in MarkerAt(s) : i >= j
    IN  SubSeq(s, 1, last - 1)

\* alert_name.split("-bigquery-notification")[0]
SplitFirst(s) ==
    LET first == CHOOSE i \in MarkerAt(s) : \A j \in MarkerAt(s) : i <= j
    IN  SubSeq(s, 1, first - 1)

\* the outcome of a call: a returned value or a raised exception
Returns(v) == [raised |-> FALSE, value |-> v]
Raises(v) == [raised |-> TRUE, value |-> v]

\* get_alert_name falling back to the whole label when the marker is absent
get_alert_name_fallback(alert_name) ==
    IF HasMarker(alert_name)
    THEN Returns(SplitFirst(alert_name))
    ELSE Returns(alert_name)

\* get_alert_name: the project name, or InvalidAlertNameException(alert_name)
get_alert_name(alert_name) ==
    IF HasMarker(alert_name)
    THEN Returns(SplitFirst(alert_name))
    ELSE Raises(alert_name)

LabelA == <<"a", "-", "n">>
LabelB == <<"b", "-", "n">>
LabelBad == <<"a", "n">>
Labels == {LabelA, LabelB, LabelBad}

\* every label over the characters of the marker and one other character
Chars == {"a", "-", "n"}
AllLabels == UNION {[1..n -> Chars] : n \in 0..MaxLen}

Keys == {get_alert_name(l).value : l \in {l \in Labels : HasMarker(l)}}

\* ---------------------------------------------------------------- events
\* alertThresholdExceeded: absent, 0.5, 0.75 or 1.0
None == "None"
Half == "0.5"
ThreeQuarters == "0.75"
One == "1.0"
Thresholds == {None, Half, ThreeQuarters, One}

\* the decoded Pub/Sub payload.  The cost of an event matters to subscribe
\* only when the event has no threshold (line 35); with a threshold the cost
\* and the budget are only printed, and one cost is enough.
Events ==
    {e \in [costAmount : 0..MaxCost, budgetAmount : {Budget},
            budgetDisplayName : Labels, alertThresholdExceeded : Thresholds] :
        e.alertThresholdExceeded # None => e.costAmount = e.budgetAmount}

\* duplicate and overlapping deliveries for one entity; these are the events
\* whose invocation reaches the ledger, every other invocation ends in its
\* first step and has nothing to interleave
LedgerEvents ==
    {e \in Events : /\ e.budgetDisplayName = LabelA
                    /\ e.alertThresholdExceeded # None}

NoEvent == "NoEvent"
Procs == {1, 2}

\* a Firestore document snapshot
Missing == [exists |-> FALSE]
Found(i) == [exists |-> TRUE, last_noti |-> FromFirestore(i)]

\* all aware datetimes of the two zones
DateTimes == {DateTime(i, o) : i \in Instants, o \in {UtcOffset, BkkOffset}}

\* absolute number of the Bangkok calendar month an instant falls in
MonthIdx(i) == (i + BkkOffset) \div TicksPerMonth
NoMonth == 0 - 1

VARIABLES
    clock,      \* the wall clock, an instant
    ledger,     \* Firestore: project id -> stored "last_noti" instant, or Absent
    pc,         \* where each invocation stands
    ev,         \* pubsub_json of the invocation
    now,        \* current_timestamp of the invocation
    snapshot,   \* last_notify_snapshot: <<>> until assigned, then <<snapshot>>
    result,     \* should_notify: what check_to_notify_per_month returned
    outcome,    \* how the invocation ended
    committed,  \* whether the invocation has written the ledger
    posted,     \* whether the invocation has called the webhook
    lastSent,   \* per key, the month of the evaluation that last called the webhook
    lastStatus, \* per key, how the last webhook call went
    current,    \* has_one_month_passed on its own: the first argument,
    previous,   \*   the second argument,
    passed,     \*   and the value returned
    label,      \* get_alert_name on its own: the argument,
    resolved    \*   and <<the outcome of the call>>, <<>> before the call

vars == <<clock, ledger, pc, ev, now, snapshot, result, outcome, committed,
          posted, lastSent, lastStatus, current, previous, passed, label,
          resolved>>
procVars == <<pc, ev, now, snapshot, result, outcome, committed, posted>>
clockVars == <<current, previous, passed>>
labelVars == <<label, resolved>>

Init ==
    /\ clock = 0
    /\ ledger = <<>>
    /\ pc = [p \in Procs |-> "idle"]
    /\ ev = [p \in Procs |-> NoEvent]
    /\ now = [p \in Procs |-> PendulumNow(0)]
    /\ snapshot = [p \in Procs |-> <<>>]
    /\ result = [p \in Procs |-> "Unset"]
    /\ outcome = [p \in Procs |-> "Unset"]
    /\ committed = [p \in Procs |-> FALSE]
    /\ posted = [p \in Procs |-> FALSE]
    /\ lastSent = [k \in Keys |-> NoMonth]
    /\ lastStatus = [k \in Keys |-> "Unset"]
    /\ current = PendulumNow(0)
    /\ previous = PendulumNow(0)
    /\ passed = "Unset"
    /\ label = <<>>
    /\ resolved = <<>>

\* project_id of a running invocation
ProjectId(p) == get_alert_name(ev[p].budgetDisplayName).value

\* last_notify_ref.get(): the snapshot of document k
DocGet(l, k) == IF k \in DOMAIN l THEN Found(l[k]) ELSE Missing

\* a set that writes the epoch instead of the timestamp it is given
DocSet_epoch(l, k, ts) == [j \in DOMAIN l \cup {k} |-> IF j = k THEN 0 ELSE l[j]]

\* last_notify_ref.set({"last_noti": ts}): create or overwrite document k
DocSet(l, k, ts) == [j \in DOMAIN l \cup {k} |-> IF j = k THEN ts.inst ELSE l[j]]

\* an update that loses the document
DocUpdate_drop(l, k, ts) == [j \in DOMAIN l \ {k} |-> l[j]]

\* last_notify_ref.update({"last_noti": ts}): overwrite the existing document k
DocUpdate(l, k, ts) == [l EXCEPT ![k] = ts.inst]

\* a notification posted for every threshold
SendsFor_any(threshold) == threshold # None

\* subscribe, lines 58-72: whether a notification is posted for the threshold
SendsFor(threshold) == threshold = ThreeQuarters \/ threshold = One

\* the invocation ends: "NoAction" and "NotifyAction" are normal returns,
\* anything else is the exception that left subscribe
Ends(p, o) ==
    /\ pc' = [pc EXCEPT ![p] = "done"]
    /\ outcome' = [outcome EXCEPT ![p] = o]

\* time passes
Tick ==
    /\ clock < MaxTime
    /\ clock' = clock + 1
    /\ UNCHANGED <<ledger, procVars, lastSent, lastStatus, clockVars, labelVars>>

\* subscribe up to the ledger read (lines 21-56, 110-114): decode the event,
\* derive the project id (line 32, before the threshold is looked at), apply
\* the threshold gate, fix the evaluation time.  Without a threshold subscribe
\* returns at line 37 when the cost is within the budget and falls off its
\* end otherwise: either way it returns having done nothing.
Subscribe(p, e) ==
    /\ pc[p] = "idle"
    /\ ev' = [ev EXCEPT ![p] = e]
    /\ IF get_alert_name(e.budgetDisplayName).raised
       THEN Ends(p, "InvalidAlertNameException") /\ UNCHANGED now
       ELSE IF e.alertThresholdExceeded = None
            THEN Ends(p, "NoAction") /\ UNCHANGED now
            ELSE /\ pc' = [pc EXCEPT ![p] = "get"]
                 /\ now' = [now EXCEPT ![p] = PendulumNow(clock)]
                 /\ UNCHANGED outcome
    /\ UNCHANGED <<clock, ledger, snapshot, result, committed, posted, lastSent, lastStatus, clockVars, labelVars>>

\* the branch check_to_notify_per_month takes on what it read (lines 118-140)
ThrottleBranch(snap, current_timestamp) ==
    IF ~snap.exists
    THEN "first"
    ELSE IF has_one_month_passed(current_timestamp,
                                 convert_to_timestamp_with_bkk(snap.last_noti))
         THEN "passed"
         ELSE "skip"

\* check_to_notify_per_month returning True where it skips
Returned_skip_true(branch) ==
    CASE branch = "first" -> "True"
      [] branch = "passed" -> "True"
      [] branch = "skip" -> "True"
      [] branch = "except" -> "None"

\* check_to_notify_per_month returning True from its except clause
Returned_except_true(branch) ==
    CASE branch = "first" -> "True"
      [] branch = "passed" -> "True"
      [] branch = "skip" -> "False"
      [] branch = "except" -> "True"

\* what check_to_notify_per_month returns at the end of each branch
\* (lines 123, 137, 140), and after the except clause (line 142)
Returned(branch) ==
    CASE branch = "first" -> "True"
      [] branch = "passed" -> "True"
      [] branch = "skip" -> "False"
      [] branch = "except" -> "None"

\* back in subscribe with should_notify (lines 56-74)
Back(p, should_notify) ==
    /\ result' = [result EXCEPT ![p] = should_notify]
    /\ IF should_notify = "True" /\ SendsFor(ev[p].alertThresholdExceeded)
       THEN pc' = [pc EXCEPT ![p] = "send"] /\ UNCHANGED outcome
       ELSE Ends(p, "NoAction")

\* the except clause (lines 141-142): the exception is printed, the function
\* returns None, and subscribe takes the else branch of "if should_notify"
StoreFails(p) == Back(p, Returned("except"))

\* last_notify_ref.get() and the decision taken on it (lines 117-140)
Get(p) ==
    /\ pc[p] = "get"
    /\ \/ StoreFails(p) /\ UNCHANGED snapshot
       \/ LET snap == DocGet(ledger, ProjectId(p))
              branch == ThrottleBranch(snap, now[p])
          IN  /\ snapshot' = [snapshot EXCEPT ![p] = <<snap>>]
              /\ IF branch = "first"
                 THEN pc' = [pc EXCEPT ![p] = "set"] /\ UNCHANGED <<result, outcome>>
                 ELSE IF branch = "passed"
                      THEN pc' = [pc EXCEPT ![p] = "update"] /\ UNCHANGED <<result, outcome>>
                      ELSE Back(p, Returned(branch))
    /\ UNCHANGED <<clock, ledger, ev, now, committed, posted, lastSent, lastStatus, clockVars, labelVars>>

\* last_notify_ref.set(...) of the first evaluation (lines 118-123)
Set(p) ==
    /\ pc[p] = "set"
    /\ \/ StoreFails(p) /\ UNCHANGED <<ledger, committed>>
       \/ /\ ledger' = DocSet(ledger, ProjectId(p), now[p])
          /\ committed' = [committed EXCEPT ![p] = TRUE]
          /\ Back(p, Returned("first"))
    /\ UNCHANGED <<clock, ev, now, snapshot, posted, lastSent, lastStatus, clockVars, labelVars>>

\* last_notify_ref.update(...) after a month boundary (lines 132-137)
Update(p) ==
    /\ pc[p] = "update"
    /\ \/ StoreFails(p) /\ UNCHANGED <<ledger, committed>>
       \/ /\ ProjectId(p) \in DOMAIN ledger
          /\ ledger' = DocUpdate(ledger, ProjectId(p), now[p])
          /\ committed' = [committed EXCEPT ![p] = TRUE]
          /\ Back(p, Returned("passed"))
    /\ UNCHANGED <<clock, ev, now, snapshot, posted, lastSent, lastStatus, clockVars, labelVars>>

\* what requests.post can do: answer 200, answer another status, or raise
PostResults == {"200", "500", "raised"}

\* how subscribe ends after send_teams (lines 59-72, 97): the status code
\* returned is dropped, an exception of requests.post leaves subscribe
AfterPost(r) == IF r = "raised" THEN "RequestException" ELSE "NotifyAction"

\* send_teams (lines 77-97): the POST is issued
Send(p) ==
    /\ pc[p] = "send"
    /\ posted' = [posted EXCEPT ![p] = TRUE]
    /\ lastSent' = [lastSent EXCEPT ![ProjectId(p)] = MonthIdx(now[p].inst)]
    /\ \E r \in PostResults :
          /\ lastStatus' = [lastStatus EXCEPT ![ProjectId(p)] = r]
          /\ Ends(p, AfterPost(r))
    /\ UNCHANGED <<clock, ledger, ev, now, snapshot, result, committed, clockVars, labelVars>>

\* the invocation is over; the next delivery starts from scratch
Return(p) ==
    /\ pc[p] = "done"
    /\ pc' = [pc EXCEPT ![p] = "idle"]
    /\ ev' = [ev EXCEPT ![p] = NoEvent]
    /\ now' = [now EXCEPT ![p] = PendulumNow(0)]
    /\ snapshot' = [snapshot EXCEPT ![p] = <<>>]
    /\ result' = [result EXCEPT ![p] = "Unset"]
    /\ outcome' = [outcome EXCEPT ![p] = "Unset"]
    /\ committed' = [committed EXCEPT ![p] = FALSE]
    /\ posted' = [posted EXCEPT ![p] = FALSE]
    /\ UNCHANGED <<clock, ledger, lastSent, lastStatus, clockVars, labelVars>>

\* the steps of a running invocation
Running(p) ==
    \/ Get(p)
    \/ Set(p)
    \/ Update(p)
    \/ Send(p)
    \/ Return(p)

\* has_one_month_passed applied to a pair of datetimes
Compare ==
    /\ passed = "Unset"
    /\ passed' = IF has_one_month_passed(current, previous) THEN "True" ELSE "False"
    /\ UNCHANGED <<clock, ledger, procVars, lastSent, lastStatus, current, previous,
                 labelVars>>

\* get_alert_name applied to a label
Resolve ==
    /\ resolved = <<>>
    /\ resolved' = <<get_alert_name(label)>>
    /\ UNCHANGED <<clock, ledger, procVars, lastSent, lastStatus, clockVars, label>>

\* invocations overlap freely
Next ==
    \/ Tick
    \/ \E p \in Procs :
          \/ \E e \in LedgerEvents : Subscribe(p, e)
          \/ Running(p)
Spec == Init /\ [][Next]_vars

\* an invocation that starts when no other invocation is under way
Others(p) == Procs \ {p}
SubscribeAlone(p, e) ==
    /\ \A q \in Others(p) : pc[q] = "idle"
    /\ Subscribe(p, e)

\* invocations run one after the other
NextSeq ==
    \/ Tick
    \/ \E p \in Procs :
          \/ \E e \in Events : SubscribeAlone(p, e)
          \/ Running(p)
SpecSeq == Init /\ [][NextSeq]_vars

\* the month comparison on every pair of datetimes
InitClock ==
    /\ clock = 0
    /\ ledger = <<>>
    /\ pc = [p \in Procs |-> "idle"]
    /\ ev = [p \in Procs |-> NoEvent]
    /\ now = [p \in Procs |-> PendulumNow(0)]
    /\ snapshot = [p \in Procs |-> <<>>]
    /\ result = [p \in Procs |-> "Unset"]
    /\ outcome = [p \in Procs |-> "Unset"]
    /\ committed = [p \in Procs |-> FALSE]
    /\ posted = [p \in Procs |-> FALSE]
    /\ lastSent = [k \in Keys |-> NoMonth]
    /\ lastStatus = [k \in Keys |-> "Unset"]
    /\ current \in DateTimes
    /\ previous \in DateTimes
    /\ passed = "Unset"
    /\ label = <<>>
    /\ resolved = <<>>
NextClock == Compare
SpecClock == InitClock /\ [][NextClock]_vars

\* get_alert_name on every label up to MaxLen characters
InitResolve ==
    /\ clock = 0
    /\ ledger = <<>>
    /\ pc = [p \in Procs |-> "idle"]
    /\ ev = [p \in Procs |-> NoEvent]
    /\ now = [p \in Procs |-> PendulumNow(0)]
    /\ snapshot = [p \in Procs |-> <<>>]
    /\ result = [p \in Procs |-> "Unset"]
    /\ outcome = [p \in Procs |-> "Unset"]
    /\ committed = [p \in Procs |-> FALSE]
    /\ posted = [p \in Procs |-> FALSE]
    /\ lastSent = [k \in Keys |-> NoMonth]
    /\ lastStatus = [k \in Keys |-> "Unset"]
    /\ current = PendulumNow(0)
    /\ previous = PendulumNow(0)
    /\ passed = "Unset"
    /\ label \in AllLabels
    /\ resolved = <<>>
NextResolve == Resolve
SpecResolve == InitResolve /\ [][NextResolve]_vars

\* ------------------------------------------------------------ properties
\* the key of the invocation p, once its label has been resolved
KeyOf(p) == get_alert_name(ev[p].budgetDisplayName).value

\* the Bangkok month of the evaluation time of invocation p
EvalMonth(p) == MonthIdx(now[p].inst)

\* the instant held by the snapshot the invocation read
SnapInst(p) == snapshot[p][1].last_noti.inst

ReadMissing(p) == snapshot[p] = <<Missing>>
ReadFound(p) == snapshot[p] # <<>> /\ snapshot[p] # <<Missing>>

\* the call of check_to_notify_per_month is over
CallOver(p) == pc[p] \in {"send", "done"} /\ result[p] # "Unset"

\* C1: when invocations of subscribe do not overlap, every notification for a
\* key is sent for an evaluation month strictly later than the month of the
\* last notification for that key, and every ledger write stores an instant
\* of a strictly later month than the one stored before; hence at most one
\* notification and at most one ledger update per key and calendar month.
C1_OncePerMonth ==
    [][\A p \in Procs :
          /\ (posted'[p] /\ ~posted[p]) => lastSent[KeyOf(p)] < EvalMonth(p)
          /\ (committed'[p] /\ ~committed[p]) =>
                 \/ KeyOf(p) \notin DOMAIN ledger
                 \/ MonthIdx(ledger[KeyOf(p)]) < MonthIdx(ledger'[KeyOf(p)])]_vars

\* a 1.0 alert is suppressed because its key was already notified that month
C1_Witness ==
    \E p \in Procs :
        /\ pc[p] = "done"
        /\ result[p] = "False"
        /\ ev[p].alertThresholdExceeded = One
        /\ lastSent[KeyOf(p)] = EvalMonth(p)

\* C2: of two concurrent evaluations for the same key in the same calendar
\* month, only one commits the ledger update and returns true.
C2_OnlyOneCommits ==
    \A p \in Procs : \A q \in Others(p) :
        ~ /\ CallOver(p) /\ CallOver(q)
          /\ KeyOf(p) = KeyOf(q)
          /\ EvalMonth(p) = EvalMonth(q)
          /\ result[p] = "True" /\ committed[p]
          /\ result[q] = "True" /\ committed[q]

\* C3: an invocation whose ledger read or write failed (the except clause
\* was taken, check_to_notify_per_month returned None) ends in a failure,
\* never in a normal return.
C3_StoreFailureSurfaces ==
    \A p \in Procs :
        (pc[p] = "done" /\ result[p] = "None") =>
            outcome[p] \notin {"NoAction", "NotifyAction"}

\* C4: the first shouldNotify call for a key without a ledger record, when
\* its store operations succeed, returns true and leaves a record for the
\* key holding the evaluation time of the call.
C4_FirstCallNotifies ==
    \A p \in Procs :
        (CallOver(p) /\ ReadMissing(p) /\ result[p] # "None") =>
            /\ result[p] = "True"
            /\ DocGet(ledger, KeyOf(p)) = Found(now[p].inst)

\* a first call made after the epoch has returned true
C4_Witness ==
    \E p \in Procs :
        /\ CallOver(p) /\ ReadMissing(p)
        /\ result[p] = "True"
        /\ now[p].inst > 0

\* C5: a shouldNotify call for a key whose record holds an instant of the
\* same calendar month as now returns false, and its step leaves every
\* record of the ledger as it was.
C5_SameMonthSkips ==
    [][\A p \in Procs :
          ( /\ pc[p] = "get" /\ pc'[p] # "get"
            /\ result'[p] # "None"
            /\ KeyOf(p) \in DOMAIN ledger
            /\ MonthIdx(ledger[KeyOf(p)]) = EvalMonth(p) ) =>
              /\ result'[p] = "False"
              /\ pc'[p] = "done" /\ outcome'[p] = "NoAction"
              /\ ~committed'[p]
              /\ ledger' = ledger]_vars

\* a call later in the month of the stored instant was skipped, with a
\* record present for every key
C5_Witness ==
    \E p \in Procs :
        /\ pc[p] = "done" /\ result[p] = "False"
        /\ ReadFound(p)
        /\ MonthIdx(SnapInst(p)) = EvalMonth(p)
        /\ SnapInst(p) < now[p].inst
        /\ DOMAIN ledger = Keys

\* C6: for a key with a record, a shouldNotify call whose now lies in a
\* later calendar month than the stored instant, when its store operations
\* succeed, returns true and sets the stored instant to now.
C6_LaterMonthNotifies ==
    \A p \in Procs :
        ( /\ CallOver(p) /\ ReadFound(p)
          /\ MonthIdx(SnapInst(p)) < EvalMonth(p)
          /\ result[p] # "None" ) =>
            /\ result[p] = "True"
            /\ DocGet(ledger, KeyOf(p)) = Found(now[p].inst)

\* a call in the first month of a year, the record being of the last month
\* of the year before, has returned true
C6_Witness ==
    \E p \in Procs :
        /\ CallOver(p) /\ ReadFound(p)
        /\ result[p] = "True"
        /\ MonthIdx(SnapInst(p)) + 1 = EvalMonth(p)
        /\ YearOf(now[p]) > YearOf(PendulumNow(SnapInst(p)))

\* C7: a call of shouldNotify has committed a ledger write if and only if
\* it returned true, whether it returned true, false or failed.
C7_CommitIffTrue ==
    \A p \in Procs :
        /\ CallOver(p) => (committed[p] <=> result[p] = "True")
        /\ ~CallOver(p) => ~committed[p]

\* the write of a first call failed: nothing committed, nothing returned
C7_Witness ==
    \E p \in Procs :
        /\ pc[p] = "done" /\ ReadMissing(p)
        /\ result[p] = "None" /\ ~committed[p]

\* the month a datetime falls in, counted from the epoch in its own zone
LocalMonth(dt) == LocalTicks(dt) \div TicksPerMonth

\* C8: has_one_month_passed(current, previous) is true exactly when current
\* falls in a later calendar month than previous: false within one month
\* however far apart, true across a month boundary however close.
C8_MonthRolledOver ==
    passed # "Unset" =>
        (passed = "True" <=> LocalMonth(current) > LocalMonth(previous))

\* one tick apart across a year boundary: the month number goes down and
\* the comparison is true
C8_Witness ==
    /\ passed = "True"
    /\ LocalTicks(current) = LocalTicks(previous) + 1
    /\ YearOf(current) > YearOf(previous)
    /\ MonthOf(current) < MonthOf(previous)

\* C9: an event without a threshold whose cost is at most its budget ends
\* in NoAction, without error, whatever its budgetDisplayName.
C9_NoThresholdNoAction ==
    \A p \in Procs :
        ( /\ pc[p] = "done"
          /\ ev[p].alertThresholdExceeded = None
          /\ ev[p].costAmount <= ev[p].budgetAmount ) =>
            outcome[p] = "NoAction" /\ ~committed[p]

\* C10: an event with a threshold and a label without the marker fails with
\* InvalidAlertNameException before the ledger is read: nothing is read,
\* written or sent by the invocation.
C10_InvalidLabelFails ==
    \A p \in Procs :
        ( /\ pc[p] # "idle"
          /\ ev[p].alertThresholdExceeded # None
          /\ ~HasMarker(ev[p].budgetDisplayName) ) =>
            /\ pc[p] = "done"
            /\ outcome[p] = "InvalidAlertNameException"
            /\ snapshot[p] = <<>> /\ result[p] = "Unset"
            /\ ~committed[p] /\ ~posted[p]

\* an alert at 1.0 with an unmarked label has failed, records being present
C10_Witness ==
    \E p \in Procs :
        /\ pc[p] = "done"
        /\ ev[p].alertThresholdExceeded = One
        /\ ev[p].budgetDisplayName = LabelBad
        /\ outcome[p] = "InvalidAlertNameException"
        /\ DOMAIN ledger = Keys

\* C11: when the webhook call fails (another status than 200, or an
\* exception) the record keeps the evaluation time of the invocation that
\* called it, and a later delivery evaluated in the same calendar month reads
\* that record and sends nothing.
C11_FailedPostKeepsCommit ==
    \A p \in Procs :
        /\ ( /\ pc[p] = "done" /\ posted[p]
             /\ lastStatus[KeyOf(p)] # "200" ) =>
               /\ committed[p]
               /\ DocGet(ledger, KeyOf(p)) = Found(now[p].inst)
        /\ ( /\ pc[p] = "done" /\ ReadFound(p)
             /\ lastStatus[KeyOf(p)] \in {"500", "raised"}
             /\ lastSent[KeyOf(p)] = EvalMonth(p)
             /\ MonthIdx(SnapInst(p)) = EvalMonth(p) ) =>
               /\ ~posted[p]
               /\ outcome[p] = "NoAction"
               /\ DocGet(ledger, KeyOf(p)) = snapshot[p][1]

\* a 1.0 alert redelivered in the month in which the webhook call for its
\* key raised has ended without a call
C11_Witness ==
    \E p \in Procs :
        /\ pc[p] = "done" /\ ReadFound(p)
        /\ ev[p].alertThresholdExceeded = One
        /\ lastStatus[KeyOf(p)] = "raised"
        /\ lastSent[KeyOf(p)] = EvalMonth(p)
        /\ MonthIdx(SnapInst(p)) = EvalMonth(p)
        /\ ~posted[p]

\* whether the marker stands at position i of the label s
MarkerStandsAt(s, i) ==
    /\ i + Len(Marker) - 1 <= Len(s)
    /\ \A j \in 1..Len(Marker) : s[i + j - 1] = Marker[j]

\* C12: for a label in which the marker occurs, resolve returns the part of
\* the label in front of an occurrence of the marker, and the marker stands
\* nowhere earlier in the label: the part preceding its first occurrence.
C12_PrefixBeforeFirstMarker ==
    ( /\ resolved # <<>>
      /\ \E i \in 1..Len(label) : MarkerStandsAt(label, i) ) =>
        LET r == resolved[1] IN
        /\ ~r.raised
        /\ Len(r.value) < Len(label)
        /\ \A j \in 1..Len(r.value) : r.value[j] = label[j]
        /\ MarkerStandsAt(label, Len(r.value) + 1)
        /\ \A i \in 1..Len(r.value) : ~MarkerStandsAt(label, i)

\* the marker stands at the start of the label and once more: the key is
\* the empty string
C12_Witness ==
    /\ resolved = <<Returns(<<>>)>>
    /\ Cardinality({i \in 1..Len(label) : MarkerStandsAt(label, i)}) > 1

\* C13: the write of a first evaluation (initialize) that finds a record
\* already there does not overwrite it and does not let the call return
\* true.
C13_InitializeGuards ==
    [][\A p \in Procs :
          ( /\ pc[p] = "set" /\ pc'[p] # "set"
            /\ KeyOf(p) \in DOMAIN ledger ) =>
              /\ ledger' = ledger
              /\ result'[p] # "True"]_vars

\* C14: an invocation whose threshold is present and is neither 0.75 nor
\* 1.0 never calls the webhook, and ends without a notification.
C14_OtherThresholdNoAction ==
    \A p \in Procs :
        ( /\ pc[p] # "idle"
          /\ ev[p].alertThresholdExceeded \notin {None, ThreeQuarters, One} ) =>
            /\ pc[p] # "send"
            /\ ~posted[p]
            /\ pc[p] = "done" =>
                  outcome[p] \in {"NoAction", "InvalidAlertNameException"}

\* an alert at 0.5 for which check_to_notify_per_month returned True has
\* ended without a call of the webhook
C14_Witness ==
    \E p \in Procs :
        /\ pc[p] = "done"
        /\ ev[p].alertThresholdExceeded = Half
        /\ result[p] = "True"
        /\ outcome[p] = "NoAction" /\ ~posted[p]

\* the month an instant falls in when read in UTC
UtcMonthIdx(i) == (i + UtcOffset) \div TicksPerMonth

\* C15: the stored instant is compared by its year and month in
\* Asia/Bangkok, the zone of the evaluation time: the converted timestamp
\* has the year and month of an evaluation made at that instant, and the
\* call returns true exactly when the evaluation falls in a later Bangkok
\* month than the stored instant.
C15_ComparedInBangkok ==
    \A p \in Procs :
        (CallOver(p) /\ ReadFound(p) /\ result[p] # "None") =>
            /\ get_month_and_year(convert_to_timestamp_with_bkk(snapshot[p][1].last_noti))
                   = get_month_and_year(PendulumNow(SnapInst(p)))
            /\ result[p] = "True" <=> MonthIdx(SnapInst(p)) < EvalMonth(p)

\* the stored instant lies at the end of a UTC month, which is already the
\* next month in Bangkok; a later evaluation in that Bangkok month is skipped
C15_Witness ==
    \E p \in Procs :
        /\ pc[p] = "done" /\ ReadFound(p)
        /\ UtcMonthIdx(SnapInst(p)) < MonthIdx(SnapInst(p))
        /\ SnapInst(p) < now[p].inst
        /\ EvalMonth(p) = MonthIdx(SnapInst(p))
        /\ result[p] = "False"

\* C16: a record that exists for a key exists in every later state, under
\* every interleaving of invocations.
C16_NeverDeleted ==
    [][\A k \in DOMAIN ledger : k \in DOMAIN ledger']_vars

\* a record has been overwritten by a later evaluation and is still there
C16_Witness ==
    \E p \in Procs :
        /\ CallOver(p) /\ ReadFound(p)
        /\ committed[p]
        /\ KeyOf(p) \in DOMAIN ledger
        /\ ledger[KeyOf(p)] > SnapInst(p)

\* C17: an invocation that has written the ledger has also called the
\* webhook by the time it ends.
C17_CommitImpliesPost ==
    \A p \in Procs :
        (pc[p] = "done" /\ committed[p]) => posted[p]

\* C18: the instant stored for a key never moves backwards, under every
\* interleaving of invocations.
C18_NeverBackwards ==
    [][\A k \in DOMAIN ledger :
          k \in DOMAIN ledger' /\ ledger'[k] >= ledger[k]]_vars

\* C19: an invocation is about to call the webhook, or has called it, only
\* after its own ledger write was committed and its call returned true; an
\* invocation whose ledger read or write failed never calls it.
C19_WriteBeforePost ==
    \A p \in Procs :
        /\ (pc[p] = "send" \/ posted[p]) => (committed[p] /\ result[p] = "True")
        /\ result[p] = "None" => (pc[p] # "send" /\ ~posted[p])

\* the write is committed and the webhook call is still to come, while the
\* other invocation has ended on a store failure without a call
C19_Witness ==
    \E p \in Procs : \E q \in Others(p) :
        /\ pc[p] = "send" /\ committed[p] /\ ~posted[p]
        /\ pc[q] = "done" /\ result[q] = "None" /\ ~posted[q]

====
